---- MODULE Spec2Model ----
(***************************************************************************)
(* Model of the subtitle pipeline of areena-saami-scraper:                 *)
(*   process_subs.py   : clean_subtitle_text, process_srt_file,            *)
(*                       process_srt_directory                             *)
(*   analyze_corpus.py : CorpusAnalyzer (_split_into_sentences, _tokenize, *)
(*                       basic_stats, word_frequency)                      *)
(* A Python str is a sequence of one-character strings.                    *)
(***************************************************************************)
EXTENDS Integers, Sequences, FiniteSets, TLC

VARIABLES
    \* ---- process_subs.py ----
    dir,                \* the input directory: a set of file names
    output_file,        \* the output artifact: [exists, lines]
    pc,                 \* position inside process_srt_directory
    srt_files,          \* list(input_path.glob('*.srt'))
    idx,                \* position of the for loop over srt_files
    all_subtitles,      \* all_subtitles of process_srt_directory
    subtitles,          \* value returned by process_srt_file
    subtitle_texts,     \* locals of process_srt_file
    current_text,
    in_subtitle_text,
    nread,              \* number of lines read in this run
    \* ---- history variables (not program state) ----
    last_line,          \* the stripped line read by the latest step
    timing_since_blank, \* a timing line was read since the last blank line
    raised,             \* the read of the current file raised
    parsed,             \* file -> the blocks process_srt_file returned
    \* ---- analyze_corpus.py ----
    raw_text,           \* CorpusAnalyzer.raw_text
    sentences,          \* CorpusAnalyzer.sentences
    words,              \* CorpusAnalyzer.words
    result              \* value returned by the latest method call

srtVars == <<dir, output_file, pc, srt_files, idx, all_subtitles, subtitles,
             subtitle_texts, current_text, in_subtitle_text, nread,
             last_line, timing_since_blank, raised, parsed>>
anaVars == <<raw_text, sentences, words, result>>
vars == <<dir, output_file, pc, srt_files, idx, all_subtitles, subtitles,
          subtitle_texts, current_text, in_subtitle_text, nread,
          last_line, timing_since_blank, raised, parsed,
          raw_text, sentences, words, result>>

\* ---------------------------------------------------------------- bounds
MaxLines == 6       \* lines read in one run, over all files
MaxTextLen == 5     \* characters of the analysed text
MaxTopN == 3        \* largest top_n asked of word_frequency

\* ------------------------------------------------------- character classes
\* str.strip() / str.split() without arguments: Unicode whitespace
IsSpace(c) == c \in {" ", "\t"}
\* str.isdigit()
IsDigit(c) == c \in {"1", "2"}
\* \w of the re module
IsWordChar(c) == c \in {"a", "b", "A", "B", "1", "2", "_"}
\* [.!?]
IsSentenceEnd(c) == c \in {".", "!", "?"}
\* str.lower()
Lower(c) == IF c = "A" THEN "a" ELSE IF c = "B" THEN "b" ELSE c

\* ------------------------------------------------------------ str helpers
RECURSIVE LStrip(_)
LStrip(s) == IF s # <<>> /\ IsSpace(Head(s)) THEN LStrip(Tail(s)) ELSE s

RECURSIVE RStrip(_)
RStrip(s) ==
    IF s # <<>> /\ IsSpace(s[Len(s)]) THEN RStrip(SubSeq(s, 1, Len(s) - 1)) ELSE s

\* str.strip()
Strip(s) == RStrip(LStrip(s))

\* str.split(): the maximal runs of non-whitespace characters
RECURSIVE SplitFrom(_, _, _)
SplitFrom(s, cur, acc) ==
    IF s = <<>> THEN (IF cur = <<>> THEN acc ELSE Append(acc, cur))
    ELSE IF IsSpace(Head(s))
         THEN SplitFrom(Tail(s), <<>>, IF cur = <<>> THEN acc ELSE Append(acc, cur))
         ELSE SplitFrom(Tail(s), Append(cur, Head(s)), acc)
Split(s) == SplitFrom(s, <<>>, <<>>)

\* ' '.join(parts)
RECURSIVE JoinSpace(_)
JoinSpace(parts) ==
    IF parts = <<>> THEN <<>>
    ELSE IF Len(parts) = 1 THEN parts[1]
    ELSE parts[1] \o <<" ">> \o JoinSpace(Tail(parts))

\* position of the first '>' at or after i, 0 if there is none
RECURSIVE FirstGt(_, _)
FirstGt(s, i) ==
    IF i > Len(s) THEN 0 ELSE IF s[i] = ">" THEN i ELSE FirstGt(s, i + 1)

\* re.sub(r'<[^>]+>', '', text): one left-to-right pass; a match starts at a
\* '<', takes one or more characters other than '>' and ends at the next '>'
RECURSIVE RemoveTagsFrom(_, _)
RemoveTagsFrom(s, i) ==
    IF i > Len(s) THEN <<>>
    ELSE IF s[i] = "<" /\ FirstGt(s, i + 1) > i + 1
         THEN RemoveTagsFrom(s, FirstGt(s, i + 1) + 1)
         ELSE <<s[i]>> \o RemoveTagsFrom(s, i + 1)
RemoveTags(s) == RemoveTagsFrom(s, 1)

\* clean_subtitle_text without line 7: the markup stays
clean_subtitle_text_KeepTags(text) == Strip(JoinSpace(Split(text)))

\* clean_subtitle_text
clean_subtitle_text(text) == Strip(JoinSpace(Split(RemoveTags(text))))

\* '-->' in line
HasArrow(s) ==
    \E i \in 1..(Len(s) - 2) : s[i] = "-" /\ s[i + 1] = "-" /\ s[i + 2] = ">"

\* line.isdigit()
IsDigitStr(s) == s # <<>> /\ \A i \in 1..Len(s) : IsDigit(s[i])

\* ------------------------------------------------------------ the inputs
\* raw lines a subtitle file may hold (without the line terminator)
Lines == {
    <<>>,                                       \* blank line
    <<" ", "\t">>,                              \* whitespace only
    <<"1">>,                                    \* sequence index
    <<"1", " ", "-", "-", ">", " ", "2">>,      \* timing range
    <<"a">>,
    <<" ", "b", "\t">>,                         \* padded text
    <<"<", "i", ">", "a", "<", "/", "i", ">">>, \* markup around text
    <<"a", " ", "\t", "<", ">", "b">>,          \* whitespace run, '<>' is no tag
    <<"<", "a">>,                               \* tag opened on one line ...
    <<"b", ">">> }                              \* ... and closed on the next

\* the lines of the files of a directory of several files
PlainLines == {
    <<>>,
    <<"1", " ", "-", "-", ">", " ", "2">>,
    <<"a">>,
    <<" ", "b", "\t">> }

\* a directory of one file is read with every line of Lines, a directory of
\* several files with the lines of PlainLines
FileLines(files) == IF Len(files) = 1 THEN Lines ELSE PlainLines

\* the .srt files a directory may hold, in the lexicographic order of
\* their names
NameOrder == <<"a", "b", "c">>
SrtName(k) == [stem |-> NameOrder[k], ext |-> "srt"]
Rank(f) == CHOOSE k \in 1..Len(NameOrder) : NameOrder[k] = f.stem
\* main() puts the artifact, combined_subtitles.txt, into the input directory
ArtifactName == [stem |-> "combined_subtitles", ext |-> "txt"]

\* the orders in which a directory listing may return a set of files
Listings(S) ==
    {q \in [1..Cardinality(S) -> S] : \A i, j \in 1..Cardinality(S) : q[i] = q[j] => i = j}

NoLine == <<"#">>   \* last_line before any line was read

\* ------------------------------------------------------ process_srt_file
\* the flush of the accumulation buffer (lines 26-28 and 52-54)
FlushBlock(texts, cur) ==
    LET text == clean_subtitle_text(JoinSpace(cur))
    IN  IF text # <<>> THEN Append(texts, text) ELSE texts

\* subtitle_texts after one more (stripped) line
NextTexts(line, texts, cur) ==
    IF line = <<>> /\ cur # <<>> THEN FlushBlock(texts, cur) ELSE texts

\* NextInText without line 30: a blank line does not leave the text state
NextInText_NoReset(line, in_text) ==
    IF HasArrow(line) THEN TRUE ELSE in_text

\* in_subtitle_text after one more (stripped) line
NextInText(line, in_text) ==
    IF line = <<>> THEN FALSE
    ELSE IF HasArrow(line) THEN TRUE
    ELSE in_text

\* current_text after one more (stripped) line
NextCurrent(line, cur, in_text) ==
    IF line = <<>> THEN <<>>
    ELSE IF HasArrow(line) THEN cur
    ELSE IF IsDigitStr(line) THEN cur
    ELSE IF in_text THEN Append(cur, line)
    ELSE cur

\* FailureResult returning the blocks parsed before the failure
FailureResult_Partial(texts) == texts

\* what process_srt_file returns when the read raises (line 48)
FailureResult(texts) == <<>>

\* EndResult without the flush of lines 51-54
EndResult_NoFlush(texts, cur) == texts

\* what process_srt_file returns at the end of the input (lines 51-56)
EndResult(texts, cur) ==
    IF cur # <<>> THEN FlushBlock(texts, cur) ELSE texts

\* ------------------------------------------------- process_srt_directory
\* the '*.srt' pattern of the glob
GlobSrt(d) == {f \in d : f.ext = "srt"}

\* NoSrtFiles without the early return of lines 63-65
NoSrtFiles_Never(files) == FALSE

\* 'if not srt_files'
NoSrtFiles(files) == files = <<>>

\* Extended putting the new blocks first
Extended_Prepend(all, subs) == subs \o all

\* all_subtitles.extend(subtitles)
Extended(all, subs) == all \o subs

\* [x for x in all_subtitles if not (x in seen or seen.add(x))]
RECURSIVE UniqueFrom(_, _, _)
UniqueFrom(all, seen, acc) ==
    IF all = <<>> THEN acc
    ELSE IF Head(all) \in seen
         THEN UniqueFrom(Tail(all), seen, acc)
         ELSE UniqueFrom(Tail(all), seen \cup {Head(all)}, Append(acc, Head(all)))
\* Unique without the seen set
Unique_KeepAll(all) == all

\* line 77-78: the texts in the order of their first occurrence
Unique(all) == UniqueFrom(all, {}, <<>>)

\* the lines written to the output file (lines 82-84)
Written(unique) == SelectSeq(unique, LAMBDA x : x # <<>>)

\* ------------------------------------------------------------ the actions
OldArtifact == [exists |-> TRUE, lines |-> << <<"a">>, <<"o", "l", "d">> >>]
NoArtifact == [exists |-> FALSE, lines |-> <<>>]

InitAnalyzerIdle ==
    /\ raw_text = <<>>
    /\ sentences = <<>>
    /\ words = <<>>
    /\ result = [op |-> "none"]

Init ==
    /\ \E n \in 0..Len(NameOrder), out \in {NoArtifact, OldArtifact} :
           /\ dir = {SrtName(k) : k \in 1..n} \cup (IF out.exists THEN {ArtifactName} ELSE {})
           /\ output_file = out
    /\ pc = "start"
    /\ srt_files = <<>>
    /\ idx = 1
    /\ all_subtitles = <<>>
    /\ subtitles = <<>>
    /\ subtitle_texts = <<>>
    /\ current_text = <<>>
    /\ in_subtitle_text = FALSE
    /\ nread = 0
    /\ last_line = NoLine
    /\ timing_since_blank = FALSE
    /\ raised = FALSE
    /\ parsed = <<>>
    /\ InitAnalyzerIdle

\* lines 60-68: list the directory; return when it holds no .srt file
Glob ==
    /\ pc = "start"
    /\ srt_files' \in Listings(GlobSrt(dir))
    /\ pc' = IF NoSrtFiles(srt_files') THEN "done" ELSE "loop"
    /\ UNCHANGED <<dir, output_file, idx, all_subtitles, subtitles, subtitle_texts,
                   current_text, in_subtitle_text, nread, last_line,
                   timing_since_blank, raised, parsed>>
    /\ UNCHANGED anaVars

\* lines 71-73 and 14-19: the loop takes the next file and opens it
OpenFile ==
    /\ pc = "loop"
    /\ idx <= Len(srt_files)
    /\ subtitle_texts' = <<>>
    /\ current_text' = <<>>
    /\ in_subtitle_text' = FALSE
    /\ timing_since_blank' = FALSE
    /\ last_line' = NoLine
    /\ pc' = "reading"
    /\ UNCHANGED <<dir, output_file, srt_files, idx, all_subtitles, subtitles,
                   nread, raised, parsed>>
    /\ UNCHANGED anaVars

\* lines 20-44: one iteration of 'for line in f'
ReadLine(raw) ==
    /\ pc = "reading"
    /\ nread < MaxLines
    /\ LET line == Strip(raw)
       IN  /\ subtitle_texts' = NextTexts(line, subtitle_texts, current_text)
           /\ current_text' = NextCurrent(line, current_text, in_subtitle_text)
           /\ in_subtitle_text' = NextInText(line, in_subtitle_text)
           /\ last_line' = line
           /\ timing_since_blank' =
                  IF line = <<>> THEN FALSE
                  ELSE IF HasArrow(line) THEN TRUE
                  ELSE timing_since_blank
    /\ nread' = nread + 1
    /\ UNCHANGED <<dir, output_file, pc, srt_files, idx, all_subtitles, subtitles,
                   raised, parsed>>
    /\ UNCHANGED anaVars

\* lines 46-48: open, read or decode raises; the file yields nothing
ReadFail ==
    /\ pc = "reading"
    /\ subtitles' = FailureResult(subtitle_texts)
    /\ raised' = TRUE
    /\ pc' = "extend"
    /\ UNCHANGED <<dir, output_file, srt_files, idx, all_subtitles, subtitle_texts,
                   current_text, in_subtitle_text, nread, last_line,
                   timing_since_blank, parsed>>
    /\ UNCHANGED anaVars

\* lines 50-56: end of input, the buffer is flushed
EndOfFile ==
    /\ pc = "reading"
    /\ subtitles' = EndResult(subtitle_texts, current_text)
    /\ pc' = "extend"
    /\ UNCHANGED <<dir, output_file, srt_files, idx, all_subtitles, subtitle_texts,
                   current_text, in_subtitle_text, nread, last_line,
                   timing_since_blank, raised, parsed>>
    /\ UNCHANGED anaVars

\* line 74
Extend ==
    /\ pc = "extend"
    /\ all_subtitles' = Extended(all_subtitles, subtitles)
    /\ parsed' = Append(parsed, subtitles)
    /\ idx' = idx + 1
    /\ pc' = "loop"
    /\ UNCHANGED <<dir, output_file, srt_files, subtitles, subtitle_texts,
                   current_text, in_subtitle_text, nread, last_line,
                   timing_since_blank>>
    /\ raised' = FALSE
    /\ UNCHANGED anaVars

\* lines 76-84: after the last file, deduplicate and write the artifact
WriteOutput ==
    /\ pc = "loop"
    /\ idx > Len(srt_files)
    /\ output_file' = [exists |-> TRUE, lines |-> Written(Unique(all_subtitles))]
    /\ dir' = dir \cup {ArtifactName}
    /\ pc' = "done"
    /\ UNCHANGED <<srt_files, idx, all_subtitles, subtitles, subtitle_texts,
                   current_text, in_subtitle_text, nread, last_line,
                   timing_since_blank, raised, parsed>>
    /\ UNCHANGED anaVars

Next ==
    \/ Glob
    \/ OpenFile
    \/ \E raw \in FileLines(srt_files) : ReadLine(raw)
    \/ ReadFail
    \/ EndOfFile
    \/ Extend
    \/ WriteOutput

Spec == Init /\ [][Next]_vars

\* -------------------------------------------------------- CorpusAnalyzer
\* the characters of the analysed texts
TextAlphabet == {"a", "B", " ", ".", "-"}

RECURSIVE SeqsUpTo(_, _)
SeqsUpTo(S, n) ==
    IF n = 0 THEN {<<>>}
    ELSE LET shorter == SeqsUpTo(S, n - 1)
         IN  shorter \cup {Append(t, c) : t \in {u \in shorter : Len(u) = n - 1}, c \in S}

\* str.lower()
LowerStr(s) == [i \in 1..Len(s) |-> Lower(s[i])]

\* re.findall(r'\b\w+\b', s): the maximal runs of word characters
RECURSIVE FindWordsFrom(_, _, _)
FindWordsFrom(s, cur, acc) ==
    IF s = <<>> THEN (IF cur = <<>> THEN acc ELSE Append(acc, cur))
    ELSE IF IsWordChar(Head(s))
         THEN FindWordsFrom(Tail(s), Append(cur, Head(s)), acc)
         ELSE FindWordsFrom(Tail(s), <<>>, IF cur = <<>> THEN acc ELSE Append(acc, cur))
FindWords(s) == FindWordsFrom(s, <<>>, <<>>)

\* re.split(r'[.!?]+', s): the pieces between the runs of separators, the
\* empty pieces at both ends included
RECURSIVE SplitSentencesFrom(_, _, _, _)
SplitSentencesFrom(s, cur, acc, inSep) ==
    IF s = <<>> THEN Append(acc, cur)
    ELSE IF IsSentenceEnd(Head(s))
         THEN SplitSentencesFrom(Tail(s), <<>>, IF inSep THEN acc ELSE Append(acc, cur), TRUE)
         ELSE SplitSentencesFrom(Tail(s), Append(cur, Head(s)), acc, FALSE)
ReSplit(s) == SplitSentencesFrom(s, <<>>, <<>>, FALSE)

\* [s.strip() for s in sentences if s.strip()]
RECURSIVE StripNonEmpty(_)
StripNonEmpty(pieces) ==
    IF pieces = <<>> THEN <<>>
    ELSE IF Strip(Head(pieces)) # <<>>
         THEN <<Strip(Head(pieces))>> \o StripNonEmpty(Tail(pieces))
         ELSE StripNonEmpty(Tail(pieces))

\* CorpusAnalyzer._split_into_sentences
split_into_sentences(text) == StripNonEmpty(ReSplit(text))

\* CorpusAnalyzer._tokenize
tokenize(text) == FindWords(LowerStr(text))

\* numbers are kept in hundredths (ten-thousandths for the ratio); NaN is the
\* float numpy returns for the mean, median and deviation of an empty list
Num(v) == [kind |-> "num", val |-> v]
NaN == [kind |-> "nan", val |-> 0]

\* round(): the nearest integer to n / d, a tie to the even one
RoundDiv(n, d) ==
    LET q == n \div d
        r == n % d
    IN  IF 2 * r < d THEN q
        ELSE IF 2 * r > d THEN q + 1
        ELSE IF q % 2 = 0 THEN q ELSE q + 1

RECURSIVE SumSeq(_)
SumSeq(xs) == IF xs = <<>> THEN 0 ELSE Head(xs) + SumSeq(Tail(xs))

RECURSIVE SumSquares(_)
SumSquares(xs) == IF xs = <<>> THEN 0 ELSE Head(xs) * Head(xs) + SumSquares(Tail(xs))

RECURSIVE InsertAsc(_, _)
InsertAsc(x, sorted) ==
    IF sorted = <<>> THEN <<x>>
    ELSE IF x < Head(sorted) THEN <<x>> \o sorted
    ELSE <<Head(sorted)>> \o InsertAsc(x, Tail(sorted))

RECURSIVE SortAsc(_)
SortAsc(xs) == IF xs = <<>> THEN <<>> ELSE InsertAsc(Head(xs), SortAsc(Tail(xs)))

\* round(np.mean(xs), 2)
Mean(xs) ==
    IF xs = <<>> THEN NaN ELSE Num(RoundDiv(100 * SumSeq(xs), Len(xs)))

\* round(np.median(xs), 2)
Median(xs) ==
    IF xs = <<>> THEN NaN
    ELSE LET sorted == SortAsc(xs)
             n == Len(xs)
         IN  IF n % 2 = 1 THEN Num(100 * sorted[(n + 1) \div 2])
             ELSE Num(50 * (sorted[n \div 2] + sorted[n \div 2 + 1]))

\* round(np.std(xs), 2): the square root of the mean squared deviation
Std(xs) ==
    IF xs = <<>> THEN NaN
    ELSE LET n == Len(xs)
             v == n * SumSquares(xs) - SumSeq(xs) * SumSeq(xs)
         IN  Num(CHOOSE r \in 0..(100 * (SumSeq(xs) + 1)) :
                     /\ (r = 0 \/ (2 * r - 1) * (2 * r - 1) * n * n <= 40000 * v)
                     /\ 40000 * v < (2 * r + 1) * (2 * r + 1) * n * n)

\* [len(re.findall(r'\b\w+\b', s)) for s in self.sentences]
SentenceLengths(sents) == [i \in 1..Len(sents) |-> Len(FindWords(sents[i]))]

\* 'unique_words / total_words if total_words > 0 else 0', rounded to 4 places
TypeTokenRatio(unique, total) ==
    IF total > 0 THEN RoundDiv(10000 * unique, total) ELSE 0

SeqToSet(xs) == {xs[i] : i \in 1..Len(xs)}

\* CorpusAnalyzer.basic_stats
basic_stats(ws, sents) ==
    LET lengths == SentenceLengths(sents)
    IN  [op |-> "basic_stats",
         total_words |-> Len(ws),
         unique_words |-> Cardinality(SeqToSet(ws)),
         total_sentences |-> Len(sents),
         average_sentence_length |-> Mean(lengths),
         median_sentence_length |-> Median(lengths),
         type_token_ratio |-> TypeTokenRatio(Cardinality(SeqToSet(ws)), Len(ws)),
         sentence_length_std |-> Std(lengths)]

CountOf(w, ws) == Cardinality({i \in 1..Len(ws) : ws[i] = w})

\* Counter(words): the distinct words in the order of their first appearance,
\* each with the number of its occurrences
RECURSIVE CounterFrom(_, _, _)
CounterFrom(ws, i, acc) ==
    IF i > Len(ws) THEN acc
    ELSE IF \E k \in 1..Len(acc) : acc[k].word = ws[i]
         THEN CounterFrom(ws, i + 1, acc)
         ELSE CounterFrom(ws, i + 1, Append(acc, [word |-> ws[i], count |-> CountOf(ws[i], ws)]))
Counter(ws) == CounterFrom(ws, 1, <<>>)

\* InsertDesc placing an item before the items of equal count
RECURSIVE InsertDesc_TiesFirst(_, _)
InsertDesc_TiesFirst(sorted, x) ==
    IF sorted = <<>> THEN <<x>>
    ELSE IF x.count >= sorted[1].count THEN <<x>> \o sorted
    ELSE <<sorted[1]>> \o InsertDesc_TiesFirst(Tail(sorted), x)

\* the stable sort by descending count that most_common is defined by,
\* sorted(items, key=count, reverse=True): an item goes after the items of
\* greater or equal count
RECURSIVE InsertDesc(_, _)
InsertDesc(sorted, x) ==
    IF sorted = <<>> THEN <<x>>
    ELSE IF x.count > sorted[1].count THEN <<x>> \o sorted
    ELSE <<sorted[1]>> \o InsertDesc(Tail(sorted), x)

RECURSIVE SortDescFrom(_, _, _)
SortDescFrom(items, i, acc) ==
    IF i > Len(items) THEN acc
    ELSE SortDescFrom(items, i + 1, InsertDesc(acc, items[i]))

\* Counter.most_common(n)
most_common(items, n) ==
    LET sorted == SortDescFrom(items, 1, <<>>)
    IN  SubSeq(sorted, 1, IF n < Len(sorted) THEN n ELSE Len(sorted))

\* CorpusAnalyzer.word_frequency
word_frequency(ws, top_n) ==
    [op |-> "word_frequency", top_n |-> top_n, table |-> most_common(Counter(ws), top_n)]

InitSrtIdle ==
    /\ dir = {}
    /\ output_file = NoArtifact
    /\ pc = "idle"
    /\ srt_files = <<>>
    /\ idx = 1
    /\ all_subtitles = <<>>
    /\ subtitles = <<>>
    /\ subtitle_texts = <<>>
    /\ current_text = <<>>
    /\ in_subtitle_text = FALSE
    /\ nread = 0
    /\ last_line = NoLine
    /\ timing_since_blank = FALSE
    /\ raised = FALSE
    /\ parsed = <<>>

\* CorpusAnalyzer.__init__
InitAnalyzer ==
    /\ raw_text \in SeqsUpTo(TextAlphabet, MaxTextLen)
    /\ sentences = split_into_sentences(raw_text)
    /\ words = tokenize(raw_text)
    /\ result = [op |-> "none"]
    /\ InitSrtIdle

BasicStats ==
    /\ result' = basic_stats(words, sentences)
    /\ UNCHANGED <<raw_text, sentences, words>>
    /\ UNCHANGED srtVars

WordFrequency(top_n) ==
    /\ result' = word_frequency(words, top_n)
    /\ UNCHANGED <<raw_text, sentences, words>>
    /\ UNCHANGED srtVars

NextAnalyzer ==
    \/ BasicStats
    \/ \E top_n \in 0..MaxTopN : WordFrequency(top_n)

SpecAnalyzer == InitAnalyzer /\ [][NextAnalyzer]_vars

\* ================================================================ claims
RECURSIVE Flatten(_)
Flatten(ss) == IF ss = <<>> THEN <<>> ELSE Head(ss) \o Flatten(Tail(ss))

FirstIndex(xs, x) == CHOOSE i \in 1..Len(xs) : xs[i] = x /\ \A j \in 1..(i - 1) : xs[j] # x

\* process_srt_directory has written the artifact
Wrote == pc = "done" /\ srt_files # <<>>

\* C1: no two lines written to the output artifact are equal strings, also
\* when the repeated text comes from different files.
C1_NoDuplicateLines ==
    Wrote =>
        \A i, j \in 1..Len(output_file.lines) :
            i # j => output_file.lines[i] # output_file.lines[j]

\* two different files returned the same text, and the artifact is written
C1_Witness ==
    /\ Wrote
    /\ \E i, j \in 1..Len(parsed) :
           i < j /\ SeqToSet(parsed[i]) \cap SeqToSet(parsed[j]) # {}

\* C2: the output is the sequence of the first occurrences of the flattened
\* per-file blocks: it holds the same texts, and a precedes b in the output
\* iff the first occurrence of a precedes the first occurrence of b.
C2_FirstOccurrenceOrder ==
    Wrote =>
        LET flat == Flatten(parsed)
            out == output_file.lines
        IN  /\ SeqToSet(out) = SeqToSet(flat)
            /\ \A i, j \in 1..Len(out) :
                   i < j <=> FirstIndex(flat, out[i]) < FirstIndex(flat, out[j])

\* a text, then another text, then the first text again from a later file
C2_Witness ==
    /\ Wrote
    /\ Len(output_file.lines) >= 2
    /\ \E i, j, k \in 1..Len(parsed) :
           /\ i < j /\ j < k
           /\ \E x \in SeqToSet(parsed[i]) \cap SeqToSet(parsed[k]) :
                  \E y \in SeqToSet(parsed[j]) : y # x

\* C3: at the end of the input a non-empty buffer is flushed as a blank line
\* would flush it, and its cleaned text is the last block returned.
C3_TrailingEntry ==
    (pc = "extend" /\ ~raised /\ current_text # <<>>) =>
        /\ subtitles = NextTexts(<<>>, subtitle_texts, current_text)
        /\ LET text == clean_subtitle_text(JoinSpace(current_text))
           IN  text # <<>> =>
                   /\ Len(subtitles) = Len(subtitle_texts) + 1
                   /\ subtitles[Len(subtitles)] = text
                   /\ SubSeq(subtitles, 1, Len(subtitle_texts)) = subtitle_texts

\* the file "1", timing line, "a" without a final blank line yields ["a"]
C3_Witness ==
    /\ pc = "extend" /\ ~raised
    /\ nread = 3
    /\ all_subtitles = <<>>
    /\ last_line = <<"a">>
    /\ current_text = << <<"a">> >>
    /\ subtitles = << <<"a">> >>

\* C4: a file whose read raises yields the empty sequence, whatever was
\* parsed before; the loop goes on to the next file with the corpus
\* unchanged, and the artifact holds the blocks of all files.
C4_FailureIsolation ==
    /\ [](raised => subtitles = <<>>)
    /\ [](Wrote => /\ Len(parsed) = Len(srt_files)
                   /\ output_file.lines = Written(Unique(Flatten(parsed))))
    /\ [][raised => /\ all_subtitles' = all_subtitles
                    /\ parsed' = Append(parsed, <<>>)
                    /\ idx' = idx + 1
                    /\ pc' = "loop"]_vars

\* the read fails after a block of this file was parsed, and an earlier
\* file has contributed to the corpus
C4_Witness ==
    /\ pc = "extend" /\ raised
    /\ subtitle_texts # <<>>
    /\ all_subtitles # <<>>
    /\ idx < Len(srt_files)

\* C5: with no sentence, basic_stats returns zero counts, ratio 0 and one
\* defined sentinel (0 or "not applicable") for the three sentence-length
\* statistics.
NotApplicable == [kind |-> "n/a", val |-> 0]
C5_ZeroDivisionGuard ==
    (result.op = "basic_stats" /\ sentences = <<>>) =>
        /\ result.total_words = 0
        /\ result.unique_words = 0
        /\ result.total_sentences = 0
        /\ result.type_token_ratio = 0
        /\ result.average_sentence_length \in {Num(0), NotApplicable}
        /\ result.median_sentence_length = result.average_sentence_length
        /\ result.sentence_length_std = result.average_sentence_length

\* C6: the artifact is the merge of the per-file blocks in the lexicographic
\* order of the file names, whatever order the listing returned.
InNameOrder ==
    [k \in 1..Len(srt_files) |->
        parsed[CHOOSE i \in 1..Len(srt_files) :
                   Cardinality({j \in 1..Len(srt_files) : Rank(srt_files[j]) < Rank(srt_files[i])}) = k - 1]]
C6_DeterministicFileOrder ==
    Wrote => output_file.lines = Written(Unique(Flatten(InNameOrder)))

\* C7: word_frequency(top_n) returns min(top_n, distinct words) entries with
\* exact counts, by descending count, equal counts in the order of first
\* appearance, and no word left out precedes a word kept.
Precedes(v, w) ==
    \/ CountOf(v, words) > CountOf(w, words)
    \/ /\ CountOf(v, words) = CountOf(w, words)
       /\ FirstIndex(words, v) < FirstIndex(words, w)
C7_WordFrequency ==
    result.op = "word_frequency" =>
        LET t == result.table
            distinct == SeqToSet(words)
            kept == {t[i].word : i \in 1..Len(t)}
        IN  /\ Len(t) = (IF result.top_n < Cardinality(distinct)
                         THEN result.top_n ELSE Cardinality(distinct))
            /\ \A i \in 1..Len(t) :
                   t[i].word \in distinct /\ t[i].count = CountOf(t[i].word, words)
            /\ \A i, j \in 1..Len(t) : i < j => Precedes(t[i].word, t[j].word)
            /\ \A w \in distinct \ kept : \A v \in kept : Precedes(v, w)

\* two words of equal count compete for the last place of the table
C7_Witness ==
    /\ result.op = "word_frequency"
    /\ result.top_n >= 1
    /\ Len(result.table) = result.top_n
    /\ \E w \in SeqToSet(words) :
           /\ \A i \in 1..Len(result.table) : result.table[i].word # w
           /\ CountOf(w, words) = result.table[Len(result.table)].count

\* C8: a line that is neither blank, nor a timing line, nor digits only is
\* appended to the buffer iff a timing line was read since the last blank
\* line; otherwise it changes neither the buffer nor the blocks; a timing
\* line is never added.
IsTextLine(line) ==
    line # <<>> /\ line # NoLine /\ ~HasArrow(line) /\ ~IsDigitStr(line)
C8_StateMachine ==
    [][(pc = "reading" /\ pc' = "reading") =>
          /\ IsTextLine(last_line') =>
                 IF timing_since_blank
                 THEN /\ current_text' = Append(current_text, last_line')
                      /\ subtitle_texts' = subtitle_texts
                 ELSE /\ current_text' = current_text
                      /\ subtitle_texts' = subtitle_texts
          /\ HasArrow(last_line') =>
                 /\ current_text' = current_text
                 /\ subtitle_texts' = subtitle_texts]_vars

\* a text line was dropped after a block had ended with a blank line
C8_Witness ==
    /\ pc = "reading"
    /\ IsTextLine(last_line)
    /\ ~timing_since_blank
    /\ subtitle_texts # <<>>
    /\ current_text = <<>>

\* C9: every emitted string is non-empty, has no whitespace at either end,
\* no two adjacent whitespace characters and no markup span.
HasSpan(t) ==
    \E i, j \in 1..Len(t) :
        /\ t[i] = "<" /\ t[j] = ">" /\ j >= i + 2
        /\ \A k \in (i + 1)..(j - 1) : t[k] # ">"
Normalized(t) ==
    /\ t # <<>>
    /\ ~IsSpace(t[1])
    /\ ~IsSpace(t[Len(t)])
    /\ \A i \in 1..(Len(t) - 1) : ~(IsSpace(t[i]) /\ IsSpace(t[i + 1]))
    /\ ~HasSpan(t)
C9_NormalizedBlocks ==
    /\ \A t \in SeqToSet(subtitle_texts) : Normalized(t)
    /\ \A t \in SeqToSet(subtitles) : Normalized(t)
    /\ \A t \in SeqToSet(all_subtitles) : Normalized(t)
    /\ Wrote => \A t \in SeqToSet(output_file.lines) : Normalized(t)

\* the line "a \t<>b", cleaned to "a <>b", is the one line of the artifact
C9_Witness ==
    /\ Wrote
    /\ output_file.lines = << <<"a", " ", "<", ">", "b">> >>

\* C10: without a .srt file the call returns without touching the artifact;
\* the artifact changes only when every found file has been processed.
C10_NoFilesNoWrite ==
    [][/\ (pc = "start" /\ GlobSrt(dir) = {}) =>
              /\ pc' = "done"
              /\ output_file' = output_file
       /\ (output_file' # output_file \/ dir' # dir) =>
              /\ GlobSrt(dir) # {}
              /\ Len(srt_files) = Cardinality(GlobSrt(dir))
              /\ Len(parsed) = Len(srt_files)]_vars

\* the call has returned, no file was found, the old artifact is intact
C10_Witness ==
    /\ pc = "done"
    /\ srt_files = <<>>
    /\ dir = {ArtifactName}
    /\ output_file = OldArtifact

====
